---- MODULE Spec2Model ----
(***************************************************************************)
(* Verification model of the insurance-claim preprocessing pipeline        *)
(* (src/src/preprocessor.py) and of the two strategy registries            *)
(* (src/src/scaler_factory.py, src/src/sampling_strategy.py).              *)
(*                                                                         *)
(* A table (pandas DataFrame) is a function from column name to the        *)
(* sequence of the column's cells; the order of the columns is not         *)
(* modelled.  A cell is a tagged record so that text, integers, booleans,  *)
(* floats and the missing marker can share a column.                       *)
(***************************************************************************)
EXTENDS Integers, Sequences, FiniteSets, TLC

VARIABLES
    df,                 \* the raw table handed to InsurancePreprocessor.process
    result,             \* outcome of the call of process on df
    scaler_registry,    \* ScalerFactory._scaler_registry (insertion-ordered dict)
    descriptions,       \* ScalerFactory._descriptions    (insertion-ordered dict)
    strategy_registry,  \* SamplingStrategyFactory._strategy_registry
    ret,                \* the last factory call and what it returned or raised
    given,              \* history: per name, the descriptions passed to register_scaler, oldest first
    ncalls,             \* number of register calls made so far
    scaler,             \* the scaler instance that create_scaler returned
    sret,               \* the last method called on scaler, its argument and what it returned
    history,            \* history: the methods called on scaler so far, oldest first
    y_true,             \* ModelEvaluator.evaluate argument: true labels
    y_pred,             \* ModelEvaluator.evaluate argument: predicted labels
    y_score,            \* ModelEvaluator.evaluate argument: scores, or None
    metrics             \* outcome of the call of evaluate

vars == <<df, result, scaler_registry, descriptions, strategy_registry, ret, given, ncalls,
          scaler, sret, history, y_true, y_pred, y_score, metrics>>

\* The state of the scaler instance and of the evaluator call.
scaler_vars == <<scaler, sret, history>>

evaluate_vars == <<y_true, y_pred, y_score, metrics>>

-----------------------------------------------------------------------------
(* Bounds *)

MaxRows == 2

MaxRegisters == 2

-----------------------------------------------------------------------------
(* Cells *)

S(t) == [k |-> "str", s |-> t, i |-> 0]

I(n) == [k |-> "int", s |-> "", i |-> n]

B(b) == [k |-> "bool", s |-> "", i |-> IF b THEN 1 ELSE 0]

F(n) == [k |-> "float", s |-> "", i |-> n]

NaN == [k |-> "nan", s |-> "", i |-> 0]

-----------------------------------------------------------------------------
(* Column roles hard-coded in InsurancePreprocessor.process *)

boolean_cols ==
    {"is_parking_camera", "is_tpms", "is_adjustable_steering", "is_esc",
     "is_parking_sensors", "is_front_fog_lights", "is_rear_window_wiper",
     "is_rear_window_washer", "is_rear_window_defogger", "is_brake_assist",
     "is_power_door_locks", "is_power_steering", "is_central_locking",
     "is_driver_seat_height_adjustable", "is_day_night_rear_view_mirror",
     "is_ecw", "is_speed_alert"}

float_cols == {"length", "width", "height", "gross_weight", "airbags", "population_density"}

ordinal_col == "ncap_rating"

encoded_col == "NCAP_Rating"

categories == <<"0", "1", "2", "3", "4", "5">>

categorical_cols ==
    {"transmission_type", "cylinder", "gear_box", "rear_brakes_type",
     "steering_type", "fuel_type", "make", "segment", "model",
     "engine_type", "max_torque", "max_power", "area_cluster", "displacement"}

target_col == "is_claim"

\* FeatureConfig.ordinal_columns: the declared category order per ordinal column
ordinal_columns == [ncap_rating |-> <<"0", "1", "2", "3", "4", "5">>]

-----------------------------------------------------------------------------
(* Helpers on tables *)

NRows(d) == IF DOMAIN d = {} THEN 0 ELSE Len(d[CHOOSE c \in DOMAIN d : TRUE])

DropColumns(d, cs) == [c \in (DOMAIN d) \ cs |-> d[c]]

Returned(d) == [raised |-> FALSE, data |-> d]

Raised(msg) == [raised |-> TRUE, error |-> "ValueError", message |-> msg]

-----------------------------------------------------------------------------
(* Step 1: drop identifiers (only when present) *)

DropIdentifiers(d) == IF "policy_id" \in DOMAIN d THEN DropColumns(d, {"policy_id"}) ELSE d

-----------------------------------------------------------------------------
(* Step 2: boolean conversion, Series.map({'Yes': True, 'No': False}).fillna(False) *)

MapYesNo(v) ==
    IF v = S("Yes") THEN B(TRUE)
    ELSE IF v = S("No") THEN B(FALSE)
    ELSE NaN

FillnaFalse_Skipped(v) == v

FillnaFalse(v) == IF v = NaN THEN B(FALSE) ELSE v

BoolCell(v) == FillnaFalse(MapYesNo(v))

BooleanConversion(d) ==
    [c \in DOMAIN d |->
        IF c \in boolean_cols THEN [r \in 1..Len(d[c]) |-> BoolCell(d[c][r])] ELSE d[c]]

-----------------------------------------------------------------------------
(* Step 3: float conversion, pd.to_numeric(errors='coerce').astype(float) *)

\* The texts of the model that parse as a number, with their value.
ParseText(t) ==
    CASE t = "4000" -> F(4000)
      [] t = "4200" -> F(4200)
      [] t = "0" -> F(0)
      [] t = "1" -> F(1)
      [] OTHER -> NaN

ToNumeric(v) ==
    CASE v.k = "str" -> ParseText(v.s)
      [] v.k = "int" -> F(v.i)
      [] v.k = "bool" -> F(v.i)
      [] v.k = "float" -> v
      [] OTHER -> NaN

FloatConversion(d) ==
    [c \in DOMAIN d |->
        IF c \in float_cols THEN [r \in 1..Len(d[c]) |-> ToNumeric(d[c][r])] ELSE d[c]]

-----------------------------------------------------------------------------
(* Step 4: ordinal encoding of ncap_rating into NCAP_Rating (only when present) *)

Digits == <<"0", "1", "2", "3", "4", "5", "6", "7", "8", "9">>

RECURSIVE IntText(_)
IntText(n) == IF n < 10 THEN Digits[n + 1] ELSE IntText(n \div 10) \o Digits[(n % 10) + 1]

\* Series.astype(str): str() of every cell; the missing marker becomes the text "nan".
AstypeStr(v) ==
    CASE v.k = "str" -> v.s
      [] v.k = "int" -> IntText(v.i)
      [] v.k = "bool" -> IF v.i = 1 THEN "True" ELSE "False"
      [] v.k = "float" -> IntText(v.i) \o ".0"
      [] OTHER -> "nan"

IndexOf(seq, x) == CHOOSE j \in 1..Len(seq) : seq[j] = x

InSeq(seq, x) == \E j \in 1..Len(seq) : seq[j] = x

\* OrdinalEncoder(categories=[...]).fit_transform: zero-based position as a float;
\* handle_unknown keeps its default 'error', so a value outside the list raises.
OrdinalCode_OneBased(t) == F(IndexOf(categories, t))

OrdinalCode(t) == F(IndexOf(categories, t) - 1)

OrdinalEncoding(d) ==
    IF ordinal_col \in DOMAIN d
    THEN LET texts == [r \in 1..Len(d[ordinal_col]) |-> AstypeStr(d[ordinal_col][r])]
         IN IF \E r \in 1..Len(texts) : ~InSeq(categories, texts[r])
            THEN Raised("Found unknown categories in column 0 during fit")
            ELSE Returned(
                   [c \in ((DOMAIN d) \cup {encoded_col}) \ {ordinal_col} |->
                       IF c = encoded_col
                       THEN [r \in 1..Len(texts) |-> OrdinalCode(texts[r])]
                       ELSE d[c]])
    ELSE Returned(d)

-----------------------------------------------------------------------------
(* Step 5: one-hot encoding, pd.get_dummies(data, columns=present, drop_first=True) *)

\* Texts of the model in Python's string order (code point order).
TextOrder == <<"Automatic", "CVT", "Manual">>

SortsBefore(a, b) == IndexOf(TextOrder, AstypeStr(a)) < IndexOf(TextOrder, AstypeStr(b))

\* The distinct observed values of a column; the missing marker is no level (dummy_na=False).
Levels(col) == {col[r] : r \in 1..Len(col)} \ {NaN}

\* drop_first=True removes the first level in sorted order.
DropFirst_KeepAll(levels) == levels

DropFirst(levels) == {l \in levels : \E m \in levels : SortsBefore(m, l)}

DummyName(c, l) == c \o "_" \o AstypeStr(l)

Dummies(d, cols) == UNION {{<<DummyName(c, l), c, l>> : l \in Levels(d[c])} : c \in cols}

KeptDummies(d, cols) == {p \in Dummies(d, cols) : p[3] \in DropFirst(Levels(d[p[2]]))}

GetDummies(d) ==
    LET cols == categorical_cols \cap DOMAIN d
        kept == KeptDummies(d, cols)
        names == {p[1] : p \in kept}
    IN [x \in ((DOMAIN d) \ cols) \cup names |->
           IF x \in names
           THEN LET p == CHOOSE q \in kept : q[1] = x
                IN [r \in 1..Len(d[p[2]]) |-> B(d[p[2]][r] = p[3])]
           ELSE d[x]]

-----------------------------------------------------------------------------
(* Step 6: separate the target *)

\* Series.astype(int): the missing marker and unparseable text cannot be cast.
CanCastInt(v) ==
    CASE v.k = "str" -> ParseText(v.s) # NaN
      [] v.k = "nan" -> FALSE
      [] OTHER -> TRUE

AstypeInt(v) == IF v.k = "str" THEN ParseText(v.s).i ELSE v.i

SeparateTarget_KeepsLabel(d) ==
    IF target_col \notin DOMAIN d
    THEN [outcome |-> "raised", error |-> "ValueError",
          message |-> "Target column '" \o target_col \o "' missing from dataset"]
    ELSE IF \E r \in 1..Len(d[target_col]) : ~CanCastInt(d[target_col][r])
    THEN [outcome |-> "raised", error |-> "ValueError",
          message |-> "cannot convert to integer"]
    ELSE [outcome |-> "returned",
          X |-> d,
          y |-> [r \in 1..Len(d[target_col]) |-> AstypeInt(d[target_col][r])]]

SeparateTarget(d) ==
    IF target_col \notin DOMAIN d
    THEN [outcome |-> "raised", error |-> "ValueError",
          message |-> "Target column '" \o target_col \o "' missing from dataset"]
    ELSE IF \E r \in 1..Len(d[target_col]) : ~CanCastInt(d[target_col][r])
    THEN [outcome |-> "raised", error |-> "ValueError",
          message |-> "cannot convert to integer"]
    ELSE [outcome |-> "returned",
          X |-> DropColumns(d, {target_col}),
          y |-> [r \in 1..Len(d[target_col]) |-> AstypeInt(d[target_col][r])]]

-----------------------------------------------------------------------------
(* InsurancePreprocessor.process: the six steps in their fixed order, on a copy *)

process(d) ==
    LET enc == OrdinalEncoding(FloatConversion(BooleanConversion(DropIdentifiers(d))))
    IN IF enc.raised
       THEN [outcome |-> "raised", error |-> enc.error, message |-> enc.message]
       ELSE SeparateTarget(GetDummies(enc.data))

Pending == [outcome |-> "pending"]

-----------------------------------------------------------------------------
(* Input tables *)

\* The columns the input tables are drawn from: one column of every role.
InputColumns ==
    {"policy_id", "is_parking_camera", "length", "ncap_rating", "transmission_type", "is_claim"}

\* The two rows of the table built in tests/test_preprocessor.py.
Row1 ==
    [policy_id |-> S("123"), is_parking_camera |-> S("Yes"), is_claim |-> I(1),
     length |-> S("4000"), ncap_rating |-> S("3"), transmission_type |-> S("Manual")]

Row2 ==
    [policy_id |-> S("456"), is_parking_camera |-> S("No"), is_claim |-> I(0),
     length |-> S("4200"), ncap_rating |-> S("5"), transmission_type |-> S("Automatic")]

\* Values a cell of each column may hold besides those of the two rows above:
\* nulls, unrecognised labels, unparseable numbers, ratings outside the list.
OtherValues ==
    [policy_id |-> {NaN},
     is_parking_camera |-> {S("yes"), NaN},
     length |-> {S("abc"), I(4000), NaN},
     ncap_rating |-> {I(0), S("6"), NaN},
     transmission_type |-> {S("CVT"), NaN},
     is_claim |-> {NaN}]

\* Rows: the two test rows, and either of them with one cell replaced.
Rows ==
    {Row1, Row2}
    \cup UNION {{[Row1 EXCEPT ![c] = v] : v \in OtherValues[c]} : c \in InputColumns}
    \cup UNION {{[Row2 EXCEPT ![c] = v] : v \in OtherValues[c]} : c \in InputColumns}

\* A table: a choice of columns (at least one that is no identifier) and
\* between one and MaxRows rows.
ColumnChoices == (SUBSET InputColumns) \ {{}, {"policy_id"}}

Table(cs, rows) == [c \in cs |-> [r \in 1..Len(rows) |-> rows[r][c]]]

-----------------------------------------------------------------------------
(* Insertion-ordered dictionaries (Python dict) *)

Dict(keys, val) == [keys |-> keys, val |-> val]

DictKeys(dct) == dct.keys

DictHas(dct, key) == InSeq(dct.keys, key)

DictGet(dct, key) == dct.val[key]

\* dct[key] = v: a new key is appended, an existing key keeps its position.
DictSet(dct, key, v) ==
    IF DictHas(dct, key)
    THEN [keys |-> dct.keys, val |-> [dct.val EXCEPT ![key] = v]]
    ELSE [keys |-> Append(dct.keys, key),
          val |-> [x \in (DOMAIN dct.val) \cup {key} |-> IF x = key THEN v ELSE dct.val[x]]]

-----------------------------------------------------------------------------
(* Names handed to the factories *)

\* str.lower() on the names of the model.
Lower(name) ==
    CASE name = "Custom" -> "custom"
      [] name = "CUSTOM" -> "custom"
      [] name = "NONE" -> "none"
      [] name = "Standard" -> "standard"
      [] name = "Unknown_Scaler" -> "unknown_scaler"
      [] OTHER -> name

\* The class-level registries as the modules define them.
InitScalerRegistry ==
    Dict(<<"none", "standard", "minmax", "robust">>,
         [none |-> "NoScaler", standard |-> "StandardScaler",
          minmax |-> "MinMaxScaler", robust |-> "RobustScaler"])

InitDescriptions ==
    Dict(<<"none", "standard", "minmax", "robust">>,
         [none |-> "No scaling (pass-through)",
          standard |-> "StandardScaler: Z-score normalization (mean=0, std=1)",
          minmax |-> "MinMaxScaler: Scale features to [0, 1] range",
          robust |-> "RobustScaler: Scale using median and IQR (robust to outliers)"])

InitStrategyRegistry ==
    Dict(<<"none", "random", "smote", "adasyn">>,
         [none |-> "NoSamplingStrategy", random |-> "RandomOversamplingStrategy",
          smote |-> "SMOTEStrategy", adasyn |-> "ADASYNStrategy"])

NoCall == [op |-> "none"]

\* No scaler has been created.
NoScalerYet == [cls |-> "none"]

\* Python's None passed as y_score.
None == [given |-> FALSE, values |-> <<>>]

NoHistory == [x \in {} |-> <<>>]

-----------------------------------------------------------------------------
(* InsurancePreprocessor.process called on a table *)

InitProcess ==
    /\ \E cs \in ColumnChoices, n \in 1..MaxRows :
          \E rows \in [1..n -> Rows] : df = Table(cs, rows)
    /\ result = Pending
    /\ scaler_registry = InitScalerRegistry
    /\ descriptions = InitDescriptions
    /\ strategy_registry = InitStrategyRegistry
    /\ ret = NoCall
    /\ given = NoHistory
    /\ ncalls = 0
    /\ scaler = NoScalerYet
    /\ sret = NoCall
    /\ history = <<>>
    /\ y_true = <<>>
    /\ y_pred = <<>>
    /\ y_score = None
    /\ metrics = Pending

\* process works on a copy: the caller's table is left as it was.
Process ==
    /\ result = Pending
    /\ result' = process(df)
    /\ UNCHANGED <<df, scaler_registry, descriptions, strategy_registry, ret, given, ncalls, scaler_vars, evaluate_vars>>

NextProcess == Process

SpecProcess == InitProcess /\ [][NextProcess]_vars


-----------------------------------------------------------------------------
(* Properties of process *)

Called == result.outcome # "pending"

ProcessReturned == result.outcome = "returned"

ProcessRaised == result.outcome = "raised"

MissingTargetMessage == "Target column 'is_claim' missing from dataset"

HasLabel == target_col \in DOMAIN df

\* Every label cell is the integer 0 or 1.
LabelsBinary == \A r \in 1..Len(df[target_col]) : df[target_col][r] \in {I(0), I(1)}

Restrict(d, cs) == [c \in cs |-> d[c]]

\* Texts a nominal cell of the model may hold.
NominalTexts == {TextOrder[j] : j \in 1..Len(TextOrder)}

\* Names of the columns of X that stem from input column c.
DerivedFrom(c) ==
    {c}
    \cup (IF c = "ncap_rating" THEN {"NCAP_Rating"} ELSE {})
    \cup (IF c \in categorical_cols THEN {c \o "_" \o t : t \in NominalTexts} ELSE {})

\* C1 (as claimed): a table that has the label column (holding 0/1 labels) is
\* always processed without an error, whatever the other columns hold; the
\* missing-label error is the only failure.
C1_OnlyMissingLabelFails ==
    (Called /\ HasLabel /\ LabelsBinary) => ProcessReturned

\* C2 (as claimed): a table without the label column always makes process
\* raise the missing-column ValueError that names the target column.
C2_MissingLabelRaisesMissingColumn ==
    (Called /\ ~HasLabel) =>
        /\ ProcessRaised
        /\ result.error = "ValueError"
        /\ result.message = MissingTargetMessage

\* C3 (as claimed): with the label present, process succeeds whichever of the
\* identifier, ordinal and nominal columns are absent; X then holds no column
\* derived from an absent column, and the columns that are present are
\* transformed exactly as in the table that has them all.
C3_AbsentColumnsSkipped ==
    (Called /\ HasLabel /\ LabelsBinary) =>
        /\ ProcessReturned
        /\ \A gone \in SUBSET ((DOMAIN df) \cap {"policy_id", "ncap_rating", "transmission_type"}) :
              LET less == process(Restrict(df, (DOMAIN df) \ gone))
              IN /\ less.outcome = "returned"
                 /\ \A c \in gone : DerivedFrom(c) \cap DOMAIN less.X = {}
                 /\ DOMAIN less.X \subseteq DOMAIN result.X
                 /\ \A x \in DOMAIN less.X : less.X[x] = result.X[x]
                 /\ less.y = result.y

\* C4: in X every cell of a boolean column is the boolean TRUE exactly when the
\* raw cell is the text "Yes", and FALSE for "No", null and anything else.
C4_BooleanYesOnly ==
    ProcessReturned =>
        \A c \in boolean_cols \cap DOMAIN df :
            /\ c \in DOMAIN result.X
            /\ \A r \in 1..Len(df[c]) : result.X[c][r] = B(df[c][r] = S("Yes"))

C4_Witness ==
    /\ ProcessReturned
    /\ "is_parking_camera" \in DOMAIN df
    /\ Len(df["is_parking_camera"]) = 2
    /\ df["is_parking_camera"][1] = S("Yes")
    /\ df["is_parking_camera"][2] = NaN
    /\ result.X["is_parking_camera"] = <<B(TRUE), B(FALSE)>>

Observed(col) == {col[r] : r \in 1..Len(col)} \ {NaN}

\* The observed value that sorts first (the reference category).
Reference(vals) ==
    CHOOSE v \in vals : \A w \in vals \ {v} :
        \E a, b \in 1..Len(TextOrder) : a < b /\ TextOrder[a] = v.s /\ TextOrder[b] = w.s

\* The indicator columns X holds for nominal column c.
IndicatorsOf(c) == {c \o "_" \o t : t \in NominalTexts} \cap DOMAIN result.X

IndicatorsMatch(c, expected) ==
    /\ c \notin DOMAIN result.X
    /\ IndicatorsOf(c) = {c \o "_" \o v.s : v \in expected}
    /\ \A v \in expected : \A r \in 1..Len(df[c]) :
          result.X[c \o "_" \o v.s][r] = B(df[c][r] = v)
    /\ \A r \in 1..Len(df[c]) :
          Cardinality({x \in IndicatorsOf(c) : result.X[x][r] = B(TRUE)}) <= 1

C7_LabelSplitAligned ==
    ProcessReturned =>
        /\ target_col \notin DOMAIN result.X
        /\ Len(result.y) = NRows(df)
        /\ \A c \in DOMAIN result.X : Len(result.X[c]) = NRows(df)
        /\ \A r \in 1..NRows(df) :
              /\ result.y[r] \in {0, 1}
              /\ I(result.y[r]) = df[target_col][r]

C7_Witness ==
    /\ ProcessReturned
    /\ NRows(df) = 2
    /\ df[target_col] = <<I(1), I(0)>>
    /\ result.y = <<1, 0>>
    /\ DOMAIN result.X # {}

-----------------------------------------------------------------------------
(* ScalerFactory *)

\* ScalerFactory.create_scaler: what the call returns or raises.
create_scaler_Default(registry, scaler_type) ==
    LET name == Lower(scaler_type)
    IN [outcome |-> "returned",
        instance_of |-> IF DictHas(registry, name) THEN DictGet(registry, name)
                        ELSE "StandardScaler"]

create_scaler(registry, scaler_type) ==
    LET name == Lower(scaler_type)
    IN IF ~DictHas(registry, name)
       THEN [outcome |-> "raised", error |-> "ValueError",
             message |-> [text |-> "Unknown scaler type", name |-> name,
                          available |-> DictKeys(registry)]]
       ELSE [outcome |-> "returned", instance_of |-> DictGet(registry, name)]

\* ScalerFactory.get_description: dict.get with a default, the key taken as given.
get_description(descs, scaler_type) ==
    IF DictHas(descs, scaler_type) THEN DictGet(descs, scaler_type) ELSE "Unknown scaler"

\* `description or name`: an empty description is replaced by the name.
StoredDescription_Name(name, description) == name

StoredDescription(name, description) == IF description = "" THEN name ELSE description

\* Names, classes and descriptions the calls of the model are made with.
RegisterNames == {"custom", "Custom", "none"}

RequestNames == {"none", "NONE", "Standard", "custom", "Custom", "CUSTOM", "Unknown_Scaler"}

ScalerClasses == {"CustomScaler", "OtherScaler"}

Descriptions == {"", "Custom Description", "Other Description"}

RegisterScaler(name, scaler_class, description) ==
    /\ ncalls < MaxRegisters
    /\ scaler_registry' = DictSet(scaler_registry, name, scaler_class)
    /\ descriptions' = DictSet(descriptions, name, StoredDescription(name, description))
    /\ given' = [x \in (DOMAIN given) \cup {name} |->
                    IF x # name THEN given[x]
                    ELSE IF name \in DOMAIN given THEN Append(given[name], description)
                    ELSE <<description>>]
    /\ ncalls' = ncalls + 1
    /\ ret' = [op |-> "register_scaler", arg |-> name, cls |-> scaler_class, desc |-> description]
    /\ UNCHANGED <<df, result, strategy_registry, scaler_vars, evaluate_vars>>

CreateScaler(scaler_type) ==
    /\ ret' = [op |-> "create_scaler", arg |-> scaler_type,
               res |-> create_scaler(scaler_registry, scaler_type)]
    /\ UNCHANGED <<df, result, scaler_registry, descriptions, strategy_registry, given, ncalls, scaler_vars, evaluate_vars>>

GetDescription(scaler_type) ==
    /\ ret' = [op |-> "get_description", arg |-> scaler_type,
               res |-> get_description(descriptions, scaler_type)]
    /\ UNCHANGED <<df, result, scaler_registry, descriptions, strategy_registry, given, ncalls, scaler_vars, evaluate_vars>>

ListAvailableScalers ==
    /\ ret' = [op |-> "list_available_scalers", res |-> DictKeys(scaler_registry)]
    /\ UNCHANGED <<df, result, scaler_registry, descriptions, strategy_registry, given, ncalls, scaler_vars, evaluate_vars>>

-----------------------------------------------------------------------------
(* SamplingStrategyFactory *)

\* SamplingStrategyFactory.create_strategy: what the call returns or raises.
create_strategy(registry, method, sampling_strategy, random_state) ==
    LET name == Lower(method)
    IN IF ~DictHas(registry, name)
       THEN [outcome |-> "raised", error |-> "ValueError",
             message |-> [text |-> "Unknown sampling method", name |-> name,
                          available |-> DictKeys(registry)]]
       ELSE IF name = "none"
       THEN [outcome |-> "returned", instance_of |-> DictGet(registry, name),
             params |-> <<>>]
       ELSE [outcome |-> "returned", instance_of |-> DictGet(registry, name),
             params |-> <<sampling_strategy, random_state>>]

StrategyClasses == {"CustomStrategy", "OtherStrategy"}

SamplingStrategies == {"minority", "all"}

RandomStates == {"None", "11"}

RegisterStrategy(name, strategy_class) ==
    /\ ncalls < MaxRegisters
    /\ strategy_registry' = DictSet(strategy_registry, name, strategy_class)
    /\ ncalls' = ncalls + 1
    /\ ret' = [op |-> "register_strategy", arg |-> name, cls |-> strategy_class]
    /\ UNCHANGED <<df, result, scaler_registry, descriptions, given, scaler_vars, evaluate_vars>>

CreateStrategy(method, sampling_strategy, random_state) ==
    /\ ret' = [op |-> "create_strategy", arg |-> method,
               res |-> create_strategy(strategy_registry, method, sampling_strategy, random_state)]
    /\ UNCHANGED <<df, result, scaler_registry, descriptions, strategy_registry, given, ncalls, scaler_vars, evaluate_vars>>

ListAvailableStrategies ==
    /\ ret' = [op |-> "list_available_strategies", res |-> DictKeys(strategy_registry)]
    /\ UNCHANGED <<df, result, scaler_registry, descriptions, strategy_registry, given, ncalls, scaler_vars, evaluate_vars>>

-----------------------------------------------------------------------------
(* The factories under any sequence of calls *)

NoTable == [c \in {} |-> <<>>]

InitFactory ==
    /\ df = NoTable
    /\ result = Pending
    /\ scaler_registry = InitScalerRegistry
    /\ descriptions = InitDescriptions
    /\ strategy_registry = InitStrategyRegistry
    /\ ret = NoCall
    /\ given = NoHistory
    /\ ncalls = 0
    /\ scaler = NoScalerYet
    /\ sret = NoCall
    /\ history = <<>>
    /\ y_true = <<>>
    /\ y_pred = <<>>
    /\ y_score = None
    /\ metrics = Pending

NextFactory ==
    \/ \E name \in RegisterNames, cls \in ScalerClasses, description \in Descriptions :
          RegisterScaler(name, cls, description)
    \/ \E scaler_type \in RequestNames : CreateScaler(scaler_type)
    \/ \E scaler_type \in RequestNames : GetDescription(scaler_type)
    \/ ListAvailableScalers
    \/ \E name \in RegisterNames, cls \in StrategyClasses : RegisterStrategy(name, cls)
    \/ \E method \in RequestNames, ss \in SamplingStrategies, rs \in RandomStates :
          CreateStrategy(method, ss, rs)
    \/ ListAvailableStrategies

SpecFactory == InitFactory /\ [][NextFactory]_vars

-----------------------------------------------------------------------------
(* Properties of the factories *)

BuiltinScalers == {"none", "standard", "minmax", "robust"}

Elements(seq) == {seq[j] : j \in 1..Len(seq)}

Count(seq, x) == Cardinality({j \in 1..Len(seq) : seq[j] = x})

Latest(name) == given[name][Len(given[name])]

\* C8: a create call whose lower-cased name is no key of the registry raises a
\* ValueError whose message carries that name and lists exactly the keys
\* registered at that moment (built-in and added at run time); it returns no
\* object and leaves the registries as they were.
C8_UnknownNameRaises ==
    [][/\ (ret'.op = "create_scaler" /\ ~DictHas(scaler_registry, Lower(ret'.arg))) =>
            /\ ret'.res.outcome = "raised"
            /\ ret'.res.error = "ValueError"
            /\ ret'.res.message.name = Lower(ret'.arg)
            /\ ret'.res.message.available = DictKeys(scaler_registry)
            /\ Elements(ret'.res.message.available) = BuiltinScalers \cup DOMAIN given
            /\ UNCHANGED <<scaler_registry, descriptions, strategy_registry>>
       /\ (ret'.op = "create_strategy" /\ ~DictHas(strategy_registry, Lower(ret'.arg))) =>
            /\ ret'.res.outcome = "raised"
            /\ ret'.res.error = "ValueError"
            /\ ret'.res.message.name = Lower(ret'.arg)
            /\ ret'.res.message.available = DictKeys(strategy_registry)
            /\ UNCHANGED <<scaler_registry, descriptions, strategy_registry>>
      ]_vars

C8_Witness ==
    /\ ret.op = "create_scaler"
    /\ ret.arg = "Unknown_Scaler"
    /\ ret.res.outcome = "raised"
    /\ ret.res.message.name = "unknown_scaler"
    /\ ret.res.message.available = <<"none", "standard", "minmax", "robust", "custom">>

\* C9 (as claimed): create finds every registered entry whatever the case of
\* the requested name: when the request equals a registered key up to case,
\* create returns an instance of the class registered under that key, in the
\* scaler registry and in the resampling registry.
C9_CaseInsensitiveCreate ==
    /\ ret.op = "create_scaler" =>
          \A key \in Elements(DictKeys(scaler_registry)) :
              Lower(key) = Lower(ret.arg) =>
                  /\ ret.res.outcome = "returned"
                  /\ ret.res.instance_of = DictGet(scaler_registry, key)
    /\ ret.op = "create_strategy" =>
          \A key \in Elements(DictKeys(strategy_registry)) :
              Lower(key) = Lower(ret.arg) =>
                  /\ ret.res.outcome = "returned"
                  /\ ret.res.instance_of = DictGet(strategy_registry, key)

\* C10: list_available_scalers holds every built-in name and every name ever
\* registered exactly once; get_description of a registered name returns the
\* non-empty description of its latest registration; registering a name sets
\* its class and keeps a single entry for it.
C10_RegisterOverwrites ==
    /\ ret.op = "list_available_scalers" =>
          \A name \in BuiltinScalers \cup DOMAIN given : Count(ret.res, name) = 1
    /\ (ret.op = "get_description" /\ ret.arg \in DOMAIN given /\ Latest(ret.arg) # "") =>
          ret.res = Latest(ret.arg)
    /\ ret.op = "register_scaler" =>
          /\ DictGet(scaler_registry, ret.arg) = ret.cls
          /\ Count(DictKeys(scaler_registry), ret.arg) = 1
          /\ Count(DictKeys(descriptions), ret.arg) = 1
          /\ ret.desc # "" => get_description(descriptions, ret.arg) = ret.desc

C10_Witness ==
    /\ ret.op = "get_description"
    /\ ret.arg = "custom"
    /\ "custom" \in DOMAIN given
    /\ given["custom"] = <<"Custom Description", "Other Description">>
    /\ ret.res = "Other Description"
    /\ Count(DictKeys(scaler_registry), "custom") = 1

-----------------------------------------------------------------------------
(* NoScaler: the scaler registered under "none" *)

MaxCalls == 3

\* NoScaler.fit: a no-op that returns the scaler itself.
NoScaler_fit(self, X) == self

\* NoScaler.transform: the data as passed.
NoScaler_transform_Centered(self, X) ==
    [r \in DOMAIN X |-> [c \in DOMAIN X[r] |-> X[r][c] - X[1][c]]]

NoScaler_transform(self, X) == X

\* NoScaler.fit_transform: the data as passed.
NoScaler_fit_transform(self, X) == X

\* scaler_class(): a fresh instance of the class the registry holds for the name.
NewScaler(scaler_type) ==
    [cls |-> create_scaler(InitScalerRegistry, scaler_type).instance_of]

\* Feature matrices: two rows and two columns of small numbers, among them
\* the array [[1, 2], [3, 4]] of tests/test_scaler_factory.py.
Matrices == [1..2 -> [1..2 -> 1..4]]

InitScaler ==
    /\ df = NoTable
    /\ result = Pending
    /\ scaler_registry = InitScalerRegistry
    /\ descriptions = InitDescriptions
    /\ strategy_registry = InitStrategyRegistry
    /\ ret = NoCall
    /\ given = NoHistory
    /\ ncalls = 0
    /\ \E scaler_type \in {"none", "NONE"} : scaler = NewScaler(scaler_type)
    /\ sret = NoCall
    /\ history = <<>>
    /\ y_true = <<>>
    /\ y_pred = <<>>
    /\ y_score = None
    /\ metrics = Pending

Fit(X) ==
    /\ Len(history) < MaxCalls
    /\ scaler.cls = "NoScaler"
    /\ sret' = [op |-> "fit", arg |-> X, value |-> NoScaler_fit(scaler, X)]
    /\ history' = Append(history, "fit")
    /\ UNCHANGED <<df, result, scaler_registry, descriptions, strategy_registry, ret, given,
                   ncalls, scaler, evaluate_vars>>

Transform(X) ==
    /\ Len(history) < MaxCalls
    /\ scaler.cls = "NoScaler"
    /\ sret' = [op |-> "transform", arg |-> X, value |-> NoScaler_transform(scaler, X)]
    /\ history' = Append(history, "transform")
    /\ UNCHANGED <<df, result, scaler_registry, descriptions, strategy_registry, ret, given,
                   ncalls, scaler, evaluate_vars>>

FitTransform(X) ==
    /\ Len(history) < MaxCalls
    /\ scaler.cls = "NoScaler"
    /\ sret' = [op |-> "fit_transform", arg |-> X,
                value |-> NoScaler_fit_transform(scaler, X)]
    /\ history' = Append(history, "fit_transform")
    /\ UNCHANGED <<df, result, scaler_registry, descriptions, strategy_registry, ret, given,
                   ncalls, scaler, evaluate_vars>>

NextScaler ==
    \/ \E X \in Matrices : Fit(X)
    \/ \E X \in Matrices : Transform(X)
    \/ \E X \in Matrices : FitTransform(X)

SpecScaler == InitScaler /\ [][NextScaler]_vars

\* C11: the scaler created for "none" is a NoScaler; after any sequence of
\* calls, fit has returned the scaler itself and transform and fit_transform
\* have returned their argument unchanged, whether or not fit was called before.
C11_NoScalerIdentity ==
    /\ scaler.cls = "NoScaler"
    /\ sret.op = "fit" => sret.value = scaler
    /\ sret.op \in {"transform", "fit_transform"} => sret.value = sret.arg

\* transform right after fit_transform, never fitted by fit, on the tests' array.
C11_Witness ==
    /\ history = <<"fit_transform", "transform">>
    /\ sret.op = "transform"
    /\ sret.arg = <<(<<1, 2>>), (<<3, 4>>)>>
    /\ sret.value = <<(<<1, 2>>), (<<3, 4>>)>>

-----------------------------------------------------------------------------
(* ModelEvaluator.evaluate *)

MaxLabels == 3

\* float('nan'), and a float given as a reduced fraction.
FloatNaN == [nan |-> TRUE, num |-> 0, den |-> 1]

RECURSIVE GCD(_, _)
GCD(a, b) == IF b = 0 THEN a ELSE GCD(b, a % b)

Ratio(n, d) == [nan |-> FALSE, num |-> n \div GCD(n, d), den |-> d \div GCD(n, d)]

ClassesOf(ys) == {ys[j] : j \in 1..Len(ys)}

RECURSIVE SortedLabels(_)
SortedLabels(ls) ==
    IF ls = {} THEN <<>>
    ELSE LET least == CHOOSE l \in ls : \A m \in ls : l <= m
         IN <<least>> \o SortedLabels(ls \ {least})

\* sklearn confusion_matrix without labels=: one row and column per label that
\* occurs in y_true or y_pred, in sorted order.
ConfusionMatrix(yt, yp) ==
    LET ls == SortedLabels(ClassesOf(yt) \cup ClassesOf(yp))
    IN [a \in 1..Len(ls) |-> [b \in 1..Len(ls) |->
           Cardinality({j \in 1..Len(yt) : yt[j] = ls[a] /\ yp[j] = ls[b]})]]

\* ndarray.ravel(): the cells row by row.
Ravel(cm) ==
    LET n == Len(cm)
    IN [q \in 1..(n * n) |-> cm[((q - 1) \div n) + 1][((q - 1) % n) + 1]]

\* roc_auc_score: the share of (positive, negative) pairs the scores order
\* rightly, ties counting half.  With a single class in y_true the score is
\* undefined: scikit-learn raises ValueError (or, in recent releases, warns and
\* returns nan); evaluate turns either into nan.
RocAucDefined(yt) == Cardinality(ClassesOf(yt)) = 2

RocAucScore(yt, scores) ==
    LET pos == {j \in 1..Len(yt) : yt[j] = 1}
        neg == {j \in 1..Len(yt) : yt[j] = 0}
        wins == Cardinality({pr \in pos \X neg : scores[pr[1]] > scores[pr[2]]})
        ties == Cardinality({pr \in pos \X neg : scores[pr[1]] = scores[pr[2]]})
    IN Ratio(2 * wins + ties, 2 * Cardinality(pos) * Cardinality(neg))

\* The inner try/except around roc_auc_score.
RocAuc(yt, yp, ys) ==
    IF ~RocAucDefined(yt) THEN FloatNaN
    ELSE IF ys.given THEN RocAucScore(yt, ys.values)
    ELSE RocAucScore(yt, yp)

accuracy_score(yt, yp) == Ratio(Cardinality({j \in 1..Len(yt) : yt[j] = yp[j]}), Len(yt))

\* precision_score(zero_division=0), recall_score and f1_score: 0 when the
\* denominator is 0.
RatioOrZero(n, d) == IF d = 0 THEN Ratio(0, 1) ELSE Ratio(n, d)

Placeholder(model_name) ==
    [Model |-> model_name, Accuracy |-> FloatNaN, Precision |-> FloatNaN,
     Recall |-> FloatNaN, F1_Score |-> FloatNaN, ROC_AUC |-> FloatNaN, FNR |-> FloatNaN]

\* evaluate: `TN, FP, FN, TP = cm.ravel()` raises unless the matrix is 2x2, and
\* the outer except then returns the placeholder for every metric.
evaluate(yt, yp, model_name, ys) ==
    LET flat == Ravel(ConfusionMatrix(yt, yp))
    IN IF Len(flat) # 4
       THEN [outcome |-> "returned", value |-> Placeholder(model_name)]
       ELSE LET FP == flat[2]
                FN == flat[3]
                TP == flat[4]
            IN [outcome |-> "returned",
                value |-> [Model |-> model_name,
                           Accuracy |-> accuracy_score(yt, yp),
                           Precision |-> RatioOrZero(TP, TP + FP),
                           Recall |-> RatioOrZero(TP, TP + FN),
                           F1_Score |-> RatioOrZero(2 * TP, 2 * TP + FP + FN),
                           ROC_AUC |-> RocAuc(yt, yp, ys),
                           FNR |-> RatioOrZero(FN, FN + TP)]]

\* Label vectors and scores the calls of the model are made with.
Labels == {0, 1}

Scores == 1..3

ModelName == "LogisticRegression"

InitEvaluate ==
    /\ df = NoTable
    /\ result = Pending
    /\ scaler_registry = InitScalerRegistry
    /\ descriptions = InitDescriptions
    /\ strategy_registry = InitStrategyRegistry
    /\ ret = NoCall
    /\ given = NoHistory
    /\ ncalls = 0
    /\ scaler = NoScalerYet
    /\ sret = NoCall
    /\ history = <<>>
    /\ \E n \in 1..MaxLabels :
          /\ y_true \in [1..n -> Labels]
          /\ y_pred \in [1..n -> Labels]
          /\ \/ y_score = None
             \/ \E values \in [1..n -> Scores] : y_score = [given |-> TRUE, values |-> values]
    /\ metrics = Pending

Evaluate ==
    /\ metrics = Pending
    /\ metrics' = evaluate(y_true, y_pred, ModelName, y_score)
    /\ UNCHANGED <<df, result, scaler_registry, descriptions, strategy_registry, ret, given,
                   ncalls, scaler_vars, y_true, y_pred, y_score>>

NextEvaluate == Evaluate

SpecEvaluate == InitEvaluate /\ [][NextEvaluate]_vars

Evaluated == metrics.outcome = "returned"

\* C12 (as claimed): evaluate returns (never raises), and an undefined metric is
\* replaced on its own: ROC_AUC is nan when it is undefined (a single class in
\* y_true), while Accuracy, which is defined for every non-empty input, is
\* reported with its value, the share of rows where y_pred equals y_true.
C12_PerMetricSentinel ==
    metrics # Pending =>
            /\ Evaluated
            /\ ~RocAucDefined(y_true) => metrics.value.ROC_AUC = FloatNaN
            /\ metrics.value.Accuracy # FloatNaN
            /\ metrics.value.Accuracy.num * Len(y_true)
                 = Cardinality({j \in 1..Len(y_true) : y_true[j] = y_pred[j]})
                     * metrics.value.Accuracy.den

====
